---- MODULE Spec2Model ----
(***************************************************************************)
(* A model of JsonSerializer.h: the Serializer<T> conversions, the         *)
(* JSON_PROPERTY accessors and JsonSerializable::toJson / fromJson.        *)
(*                                                                         *)
(* A QString is a sequence of UTF-16 code units, so that the               *)
(* case-insensitive comparison of fromJson and the key order of            *)
(* QJsonObject are computed and not assumed.  A QJsonValue is a record     *)
(* tagged by t; a QJsonObject is the sequence of its entries in ascending  *)
(* key order, which is how Qt stores and iterates it.                      *)
(***************************************************************************)
EXTENDS Integers, Sequences, FiniteSets, TLC

(***************************************************************************)
(* Bounds of the model.                                                    *)
(***************************************************************************)
\* longest container a setter is given
MaxLen == 2
\* most keys put into an input object (or members written in an input text)
MaxKeys == 2

(***************************************************************************)
(* QString                                                                 *)
(***************************************************************************)
Min(a, b) == IF a < b THEN a ELSE b

\* case folding of one code unit (ASCII letters)
Lower(c) == IF c >= 65 /\ c <= 90 THEN c + 32 ELSE c
Upper(c) == IF c >= 97 /\ c <= 122 THEN c - 32 ELSE c

FoldCase(s) == [i \in 1..Len(s) |-> Lower(s[i])]
ToUpper(s) == [i \in 1..Len(s) |-> Upper(s[i])]

\* operator< of two keys: lexicographic on the code units
StrLess(a, b) ==
    \E i \in 1..(Min(Len(a), Len(b)) + 1) :
        /\ \A j \in 1..(i - 1) : a[j] = b[j]
        /\ \/ i = Len(a) + 1 /\ i <= Len(b)
           \/ i <= Len(a) /\ i <= Len(b) /\ a[i] < b[i]

\* key.compare(propertyName, Qt::CaseInsensitive) == 0
CompareCaseSensitive(key, propertyName) == key = propertyName
CompareNonZero(key, propertyName) == FoldCase(key) # FoldCase(propertyName)
CompareCaseInsensitive(key, propertyName) == FoldCase(key) = FoldCase(propertyName)

IsDigits(s) == s # <<>> /\ \A i \in 1..Len(s) : s[i] >= 48 /\ s[i] <= 57

RECURSIVE DigitsValue(_)
DigitsValue(s) ==
    IF s = <<>> THEN 0
    ELSE DigitsValue(SubSeq(s, 1, Len(s) - 1)) * 10 + (s[Len(s)] - 48)

\* QString::number for a non-negative integer
RECURSIVE Number(_)
Number(n) ==
    IF n < 10 THEN <<48 + n>>
    ELSE Number(n \div 10) \o <<48 + (n % 10)>>

\* the strings the model uses
s_name == <<110, 97, 109, 101>>
s_age == <<97, 103, 101>>
s_hobbies == <<104, 111, 98, 98, 105, 101, 115>>
s_totalNumber == <<116, 111, 116, 97, 108, 78, 117, 109, 98, 101, 114>>
s_totalPage == <<116, 111, 116, 97, 108, 80, 97, 103, 101>>
s_pageSize == <<112, 97, 103, 101, 83, 105, 122, 101>>
s_currentPage == <<99, 117, 114, 114, 101, 110, 116, 80, 97, 103, 101>>
s_page == <<112, 97, 103, 101>>
s_persons == <<112, 101, 114, 115, 111, 110, 115>>
s_id == <<105, 100>>
s_tag == <<116, 97, 103>>
s_Tag == <<84, 97, 103>>
s_extra == <<101, 120, 116, 114, 97>>
s_scores == <<115, 99, 111, 114, 101, 115>>
s_zip == <<122, 105, 112>>
s_true == <<116, 114, 117, 101>>
s_false == <<102, 97, 108, 115, 101>>
s_A == <<65>>
s_TV == <<84, 86>>
s_18 == <<49, 56>>

(***************************************************************************)
(* QJsonValue, QJsonArray, QJsonObject                                     *)
(***************************************************************************)
JUndefined == [t |-> "Undefined"]
JNull == [t |-> "Null"]
JBool(b) == [t |-> "Bool", b |-> b]
JDouble(n) == [t |-> "Double", n |-> n]
JString(s) == [t |-> "String", s |-> s]
JArray(a) == [t |-> "Array", a |-> a]
JObject(o) == [t |-> "Object", o |-> o]

isArray(json) == json.t = "Array"
isObject(json) == json.t = "Object"

\* QJsonValue::toString(): the string of a String, the null string of anything else
toString(json) == IF json.t = "String" THEN json.s ELSE <<>>
\* QJsonValue::toArray(), toObject(): empty for a value of another type
toArray(json) == IF isArray(json) THEN json.a ELSE <<>>
toObject(json) == IF isObject(json) THEN json.o ELSE <<>>

\* QJsonArray::append stores an undefined value as null
ArrayAppend(a, v) == Append(a, IF v.t = "Undefined" THEN JNull ELSE v)

ObjKeys(o) == [i \in 1..Len(o) |-> o[i].key]
ObjKeySet(o) == {o[i].key : i \in 1..Len(o)}
ObjRemove(o, k) == SelectSeq(o, LAMBDA e : e.key # k)

\* QJsonObject::value(key): undefined when the key is absent
ObjValue(o, k) ==
    IF k \in ObjKeySet(o)
    THEN o[CHOOSE i \in 1..Len(o) : o[i].key = k].value
    ELSE JUndefined

\* QJsonObject::insert(key, value): the entry replaces one of the same key and
\* sits at the key's place in ascending order; inserting an undefined value
\* removes the key instead.
ObjInsertAppend(o, k, v) ==
    IF v.t = "Undefined" THEN ObjRemove(o, k)
    ELSE Append(ObjRemove(o, k), [key |-> k, value |-> v])

ObjInsert(o, k, v) ==
    LET rest == ObjRemove(o, k)
        pos == Cardinality({i \in 1..Len(rest) : StrLess(rest[i].key, k)})
    IN IF v.t = "Undefined" THEN rest
       ELSE SubSeq(rest, 1, pos) \o <<[key |-> k, value |-> v]>>
            \o SubSeq(rest, pos + 1, Len(rest))

(***************************************************************************)
(* Static types and the classes declared with JSON_PROPERTY                *)
(***************************************************************************)
T_int == [k |-> "int"]
T_QString == [k |-> "QString"]
T_QJsonValue == [k |-> "QJsonValue"]
\* QList<T>, QVector<T>, std::vector<T>
T_Sequence(e) == [k |-> "sequence", e |-> e]
\* QMap<QString, V>, QHash<QString, V>, std::map<QString, V>.  The key type is
\* QString: fromJson hands it.key(), a QString, to ToJsonValue<K>::convert(const K&).
T_Map(v) == [k |-> "map", v |-> v]
\* QMap<int, V>, QHash<int, V>, std::map<int, V>: toJson alone builds for them
T_IntMap(v) == [k |-> "intmap", v |-> v]
\* a class derived from JsonSerializable
T_Class(c) == [k |-> "class", c |-> c]

\* JSON_PROPERTY(type, name): a Q_PROPERTY of type QJsonValue over a member of
\* the given type
JSON_PROPERTY(type, name) == [name |-> name, typeName |-> "QJsonValue", type |-> type]
\* a Q_PROPERTY a class declares itself, of a type other than QJsonValue
Q_PROPERTY(type, name) == [name |-> name, typeName |-> type.k, type |-> type]

TestPerson ==
    << JSON_PROPERTY(T_QString, s_name),
       JSON_PROPERTY(T_int, s_age),
       JSON_PROPERTY(T_Sequence(T_QString), s_hobbies) >>

TestPageInfo ==
    << JSON_PROPERTY(T_int, s_totalNumber),
       JSON_PROPERTY(T_int, s_totalPage),
       JSON_PROPERTY(T_int, s_pageSize),
       JSON_PROPERTY(T_int, s_currentPage) >>

TestPagedPerson ==
    << JSON_PROPERTY(T_Class("TestPageInfo"), s_page),
       JSON_PROPERTY(T_Sequence(T_Class("TestPerson")), s_persons) >>

\* two classes in the style of the test classes, for what those leave out: a
\* property of type QJsonValue, a map, a Q_PROPERTY that is no JSON_PROPERTY,
\* and two property names that differ in letter case only
TestExtras ==
    << Q_PROPERTY(T_int, s_id),
       JSON_PROPERTY(T_QJsonValue, s_extra),
       JSON_PROPERTY(T_Map(T_int), s_scores) >>

TestTagged ==
    << JSON_PROPERTY(T_QString, s_tag),
       JSON_PROPERTY(T_QString, s_Tag) >>

Classes == {"TestPerson", "TestPageInfo", "TestPagedPerson", "TestExtras", "TestTagged"}

\* this->metaObject(): the properties of the class in declaration order
metaObject(c) ==
    CASE c = "TestPerson" -> TestPerson
      [] c = "TestPageInfo" -> TestPageInfo
      [] c = "TestPagedPerson" -> TestPagedPerson
      [] c = "TestExtras" -> TestExtras
      [] c = "TestTagged" -> TestTagged

propertyCount(c) == Len(metaObject(c))

\* the test of lines 180 and 212: only a property of type QJsonValue takes part
IsJsonProperty(c, i) == metaObject(c)[i].typeName = "QJsonValue"

JsonProperties(c) == {i \in 1..propertyCount(c) : IsJsonProperty(c, i)}
PropertyNames(c) == {metaObject(c)[i].name : i \in JsonProperties(c)}

(***************************************************************************)
(* The selection of Serializer<T>.  A C++ type is a name and, for a        *)
(* template-id, its arguments.  The primary template Serializer<T, Enable> *)
(* is declared and never defined; a use of Serializer<T> takes the partial *)
(* or explicit specialization whose condition T meets.                     *)
(***************************************************************************)
Type(name) == [name |-> name, args |-> <<>>]
Template(name, args) == [name |-> name, args |-> args]

is_arithmetic(T) == T.args = <<>> /\ T.name \in {"int", "double", "bool"}
is_base_of_JsonSerializable(T) == T.args = <<>> /\ T.name \in Classes

Specializations ==
    {"primitive", "QList/QVector", "std::vector", "QMap/QHash", "std::map",
     "JsonSerializable", "QJsonValue"}

\* the template arguments of specialization s can be deduced from T and its
\* enable_if condition holds
Matches(s, T) ==
    CASE s = "primitive" -> is_arithmetic(T) \/ T = Type("QString")
      [] s = "QList/QVector" -> Len(T.args) = 1 /\ T.name \in {"QList", "QVector"}
      [] s = "std::vector" -> Len(T.args) = 1 /\ T.name = "std::vector"
      [] s = "QMap/QHash" -> Len(T.args) = 2 /\ T.name \in {"QMap", "QHash"}
      [] s = "std::map" -> Len(T.args) = 2 /\ T.name = "std::map"
      [] s = "JsonSerializable" -> is_base_of_JsonSerializable(T)
      [] s = "QJsonValue" -> T = Type("QJsonValue")

ResolveWithFallback(T) ==
    LET matching == {s \in Specializations : Matches(s, T)}
    IN IF matching = {} THEN "fallback"
       ELSE IF Cardinality(matching) = 1 THEN CHOOSE s \in matching : TRUE
       ELSE "ambiguous"

\* what Serializer<T> names: the one matching specialization; the primary
\* template, an incomplete type, when none matches; nothing the compiler can
\* choose when more than one matches
Resolve(T) ==
    LET matching == {s \in Specializations : Matches(s, T)}
    IN IF matching = {} THEN "incomplete"
       ELSE IF Cardinality(matching) = 1 THEN CHOOSE s \in matching : TRUE
       ELSE "ambiguous"

\* toJson of Serializer<T> builds: T has a specialization, and so has every
\* type its toJson hands on to (the element type, the mapped type)
RECURSIVE Builds(_)
Builds(T) ==
    /\ Resolve(T) \in Specializations
    /\ Resolve(T) \in {"QList/QVector", "std::vector"} => Builds(T.args[1])
    /\ Resolve(T) \in {"QMap/QHash", "std::map"} => Builds(T.args[2])

\* fromJson builds too: a map's fromJson hands it.key(), a QString, to
\* ToJsonValue<K>::convert(const K&)
RECURSIVE BuildsFromJson(_)
BuildsFromJson(T) ==
    /\ Builds(T)
    /\ Resolve(T) \in {"QList/QVector", "std::vector"} => BuildsFromJson(T.args[1])
    /\ Resolve(T) \in {"QMap/QHash", "std::map"} =>
            T.args[1] = Type("QString") /\ BuildsFromJson(T.args[2])

\* the type as the conversions below take it
RECURSIVE Descriptor(_)
Descriptor(T) ==
    CASE Resolve(T) = "primitive" -> (IF T = Type("QString") THEN T_QString ELSE T_int)
      [] Resolve(T) = "QJsonValue" -> T_QJsonValue
      [] Resolve(T) \in {"QList/QVector", "std::vector"} -> T_Sequence(Descriptor(T.args[1]))
      [] Resolve(T) \in {"QMap/QHash", "std::map"} ->
            (IF T.args[1] = Type("QString") THEN T_Map(Descriptor(T.args[2]))
             ELSE T_IntMap(Descriptor(T.args[2])))
      [] Resolve(T) = "JsonSerializable" -> T_Class(T.name)

(***************************************************************************)
(* Construction.  The members have no initializers and the classes no      *)
(* constructor: a QString, a container or a QJsonValue starts empty (null),*)
(* an int member of a default-initialized object is indeterminate.  junk   *)
(* is the value such members are read as.                                  *)
(***************************************************************************)
Indeterminate == {0, 99}

RECURSIVE DefaultValue(_, _)
DefaultValue(type, junk) ==
    CASE type.k = "int" -> junk
      [] type.k = "QString" -> <<>>
      [] type.k = "QJsonValue" -> JNull
      [] type.k = "sequence" -> <<>>
      [] type.k = "map" -> <<>>
      [] type.k = "intmap" -> <<>>
      [] type.k = "class" ->
            [i \in 1..propertyCount(type.c) |->
                DefaultValue(metaObject(type.c)[i].type, junk)]

DefaultObject(c, junk) == DefaultValue(T_Class(c), junk)

(***************************************************************************)
(* QVariant conversions of the primitive Serializer                        *)
(***************************************************************************)
VariantToIntUnchecked(json) ==
    CASE json.t = "Double" -> json.n
      [] json.t = "Bool" -> (IF json.b THEN 1 ELSE 0)
      [] json.t = "String" -> DigitsValue(json.s)
      [] OTHER -> 0

\* json.toVariant().value<int>(): a Double is its number, a Bool 0 or 1, a
\* String its decimal value when it is one; everything else does not convert
\* and value<int>() is 0.
VariantToInt(json) ==
    CASE json.t = "Double" -> json.n
      [] json.t = "Bool" -> (IF json.b THEN 1 ELSE 0)
      [] json.t = "String" -> (IF IsDigits(json.s) THEN DigitsValue(json.s) ELSE 0)
      [] OTHER -> 0

\* json.toVariant().value<QString>()
VariantToString(json) ==
    CASE json.t = "String" -> json.s
      [] json.t = "Double" -> Number(json.n)
      [] json.t = "Bool" -> (IF json.b THEN s_true ELSE s_false)
      [] OTHER -> <<>>

\* ToJsonValue<T>::convert: QJsonValue::fromVariant(QVariant::fromValue(value))
ConvertInt(value) == JDouble(value)
ConvertString(value) == JString(value)

\* QMap::insert of a key and a value (the map is kept in key order)
MapInsert(m, k, v) ==
    LET rest == ObjRemove(m, k)
        pos == Cardinality({i \in 1..Len(rest) : StrLess(rest[i].key, k)})
    IN SubSeq(rest, 1, pos) \o <<[key |-> k, value |-> v]>>
       \o SubSeq(rest, pos + 1, Len(rest))

(***************************************************************************)
(* JsonSerializable::toJson and Serializer<T>::toJson                      *)
(***************************************************************************)
RECURSIVE SerializerToJson(_, _)
RECURSIVE SequenceToJson(_, _, _, _)
RECURSIVE SequenceToJsonPrepend(_, _, _, _)
RECURSIVE MapToJson(_, _, _, _)
RECURSIVE IntMapToJson(_, _, _, _)
RECURSIVE toJsonLoop(_, _, _, _)
RECURSIVE toJsonLoopAppend(_, _, _, _)

toJsonLoopAppend(c, this, i, json) ==
    IF i > propertyCount(c) THEN json
    ELSE IF ~IsJsonProperty(c, i) THEN toJsonLoopAppend(c, this, i + 1, json)
    ELSE LET key == metaObject(c)[i].name
             value == SerializerToJson(metaObject(c)[i].type, this[i])
         IN toJsonLoopAppend(c, this, i + 1, ObjInsertAppend(json, key, value))

\* the loop of toJson from property i on, json being the object built so far
toJsonLoop(c, this, i, json) ==
    IF i > propertyCount(c) THEN json
    ELSE IF ~IsJsonProperty(c, i) THEN toJsonLoop(c, this, i + 1, json)
    ELSE LET key == metaObject(c)[i].name
             \* readOnGadget: get_json_##name
             value == SerializerToJson(metaObject(c)[i].type, this[i])
         IN toJsonLoop(c, this, i + 1, ObjInsert(json, key, value))

toJson(c, this) == toJsonLoop(c, this, 1, <<>>)

SequenceToJsonPrepend(e, container, i, array) ==
    IF i > Len(container) THEN array
    ELSE SequenceToJsonPrepend(e, container, i + 1,
                               <<SerializerToJson(e, container[i])>> \o array)

\* the loop of Serializer<Container<T>>::toJson from element i on
SequenceToJson(e, container, i, array) ==
    IF i > Len(container) THEN array
    ELSE SequenceToJson(e, container, i + 1,
                        ArrayAppend(array, SerializerToJson(e, container[i])))

MapToJson(v, map, i, obj) ==
    IF i > Len(map) THEN obj
    ELSE MapToJson(v, map, i + 1,
                   ObjInsert(obj, toString(ConvertString(map[i].key)),
                             SerializerToJson(v, map[i].value)))

\* the same loop for a map with int keys: toString() of the Double that
\* ToJsonValue<int>::convert returns is the null string
IntMapToJson(v, map, i, obj) ==
    IF i > Len(map) THEN obj
    ELSE IntMapToJson(v, map, i + 1,
                      ObjInsert(obj, toString(ConvertInt(map[i].key)),
                                SerializerToJson(v, map[i].value)))

SerializerToJson(type, value) ==
    CASE type.k = "int" -> ConvertInt(value)
      [] type.k = "QString" -> ConvertString(value)
      [] type.k = "QJsonValue" -> value
      [] type.k = "sequence" -> JArray(SequenceToJson(type.e, value, 1, <<>>))
      [] type.k = "map" -> JObject(MapToJson(type.v, value, 1, <<>>))
      [] type.k = "intmap" -> JObject(IntMapToJson(type.v, value, 1, <<>>))
      [] type.k = "class" -> JObject(toJson(type.c, value))

(***************************************************************************)
(* JsonSerializable::fromJson and Serializer<T>::fromJson                  *)
(***************************************************************************)
RECURSIVE SerializerFromJson(_, _, _)
RECURSIVE SerializerFromJsonDefault(_, _, _)
RECURSIVE SequenceFromJson(_, _, _, _, _)
RECURSIVE MapFromJson(_, _, _, _, _)
RECURSIVE fromJsonLoop(_, _, _, _, _)
RECURSIVE ScanKeys(_, _, _)
RECURSIVE ScanKeysNoBreak(_, _, _)
RECURSIVE WriteOnGadget(_, _, _, _, _, _)
RECURSIVE WriteOnGadgetMerge(_, _, _, _, _, _)
RECURSIVE fromJsonLoopAlwaysWrite(_, _, _, _, _)

ScanKeysNoBreak(keys, propertyName, k) ==
    IF k > Len(keys) THEN <<>>
    ELSE IF CompareCaseInsensitive(keys[k], propertyName)
         THEN <<k>> \o ScanKeysNoBreak(keys, propertyName, k + 1)
         ELSE ScanKeysNoBreak(keys, propertyName, k + 1)

\* the inner loop of fromJson from key k on: the positions in json.keys() at
\* which the property is written; the loop breaks at the first match.
ScanKeys(keys, propertyName, k) ==
    IF k > Len(keys) THEN <<>>
    ELSE IF CompareCaseInsensitive(keys[k], propertyName) THEN <<k>>
         ELSE ScanKeys(keys, propertyName, k + 1)

WriteOnGadgetMerge(c, this, i, json, hits, junk) ==
    IF hits = <<>> THEN this
    ELSE LET key == ObjKeys(json)[Head(hits)]
             type == metaObject(c)[i].type
             value == IF type.k = "class"
                      THEN fromJsonLoop(type.c, this[i], toObject(ObjValue(json, key)), 1, junk)
                      ELSE SerializerFromJson(type, ObjValue(json, key), junk)
         IN WriteOnGadgetMerge(c, [this EXCEPT ![i] = value], i, json, Tail(hits), junk)

\* writeOnGadget(this, json.value(key)) for each scanned position in turn:
\* set_json_##name assigns the member the decoded value
WriteOnGadget(c, this, i, json, hits, junk) ==
    IF hits = <<>> THEN this
    ELSE LET key == ObjKeys(json)[Head(hits)]
             value == SerializerFromJson(metaObject(c)[i].type,
                                         ObjValue(json, key), junk)
         IN WriteOnGadget(c, [this EXCEPT ![i] = value], i, json, Tail(hits), junk)

fromJsonLoopAlwaysWrite(c, this, json, i, junk) ==
    IF i > propertyCount(c) THEN this
    ELSE IF ~IsJsonProperty(c, i) THEN fromJsonLoopAlwaysWrite(c, this, json, i + 1, junk)
    ELSE LET value == SerializerFromJson(metaObject(c)[i].type,
                                         ObjValue(json, metaObject(c)[i].name), junk)
         IN fromJsonLoopAlwaysWrite(c, [this EXCEPT ![i] = value], json, i + 1, junk)

\* the outer loop of fromJson from property i on
fromJsonLoop(c, this, json, i, junk) ==
    IF i > propertyCount(c) THEN this
    ELSE IF ~IsJsonProperty(c, i) THEN fromJsonLoop(c, this, json, i + 1, junk)
    ELSE LET hits == ScanKeys(ObjKeys(json), metaObject(c)[i].name, 1)
         IN fromJsonLoop(c, WriteOnGadget(c, this, i, json, hits, junk),
                         json, i + 1, junk)

ResetObject(c, this, val, junk) ==
    IF isObject(val) THEN fromJsonLoop(c, this, toObject(val), 1, junk)
    ELSE DefaultObject(c, junk)

\* fromJson(const QJsonValue& val)
fromJson(c, this, val, junk) ==
    IF isObject(val) THEN fromJsonLoop(c, this, toObject(val), 1, junk)
    ELSE this

\* how many times fromJson(val) writes property i
WriteCount(c, val, i) ==
    IF isObject(val) /\ IsJsonProperty(c, i)
    THEN Len(ScanKeys(ObjKeys(toObject(val)), metaObject(c)[i].name, 1))
    ELSE 0

SequenceFromJson(e, array, i, result, junk) ==
    IF i > Len(array) THEN result
    ELSE SequenceFromJson(e, array, i + 1,
                          Append(result, SerializerFromJson(e, array[i], junk)), junk)

MapFromJson(v, obj, i, result, junk) ==
    IF i > Len(obj) THEN result
    ELSE MapFromJson(v, obj, i + 1,
                     MapInsert(result, VariantToString(ConvertString(obj[i].key)),
                               SerializerFromJson(v, obj[i].value, junk)), junk)

SerializerFromJsonDefault(type, json, junk) ==
    CASE type.k = "int" -> VariantToInt(json)
      [] type.k = "QString" -> VariantToString(json)
      [] type.k = "QJsonValue" -> json
      [] type.k = "sequence" ->
            (IF isArray(json)
             THEN SequenceFromJson(type.e, toArray(json), 1, <<>>, junk)
             ELSE <<>>)
      [] type.k = "map" ->
            (IF isObject(json)
             THEN MapFromJson(type.v, toObject(json), 1, <<>>, junk)
             ELSE <<>>)
      [] type.k = "class" -> DefaultObject(type.c, junk)

\* Serializer<type>::fromJson(json).  For a class: T result, default-initialized
\* (its int members indeterminate), then result.fromJson(json.toObject()).
SerializerFromJson(type, json, junk) ==
    CASE type.k = "int" -> VariantToInt(json)
      [] type.k = "QString" -> VariantToString(json)
      [] type.k = "QJsonValue" -> json
      [] type.k = "sequence" ->
            (IF isArray(json)
             THEN SequenceFromJson(type.e, toArray(json), 1, <<>>, junk)
             ELSE <<>>)
      [] type.k = "map" ->
            (IF isObject(json)
             THEN MapFromJson(type.v, toObject(json), 1, <<>>, junk)
             ELSE <<>>)
      [] type.k = "class" ->
            fromJson(type.c, DefaultObject(type.c, junk),
                     JObject(toObject(json)), junk)

(***************************************************************************)
(* The text of a document.  A text is a sequence of tokens: the brackets   *)
(* and braces, the members "key": value of an object in the order they are *)
(* written, and the elements of an array.                                  *)
(***************************************************************************)
LBrace == [tok |-> "{"]
RBrace == [tok |-> "}"]
LBracket == [tok |-> "["]
RBracket == [tok |-> "]"]
Member(k, v) == [tok |-> "member", key |-> k, value |-> v]
Element(v) == [tok |-> "element", value |-> v]

Inner(data) == SubSeq(data, 2, Len(data) - 1)

RECURSIVE ParseMembers(_, _, _)
ParseMembers(ms, i, obj) ==
    IF i > Len(ms) THEN obj
    ELSE ParseMembers(ms, i + 1, ObjInsert(obj, ms[i].key, ms[i].value))

\* QJsonDocument::fromJson(data): the root object or array of a text that
\* parses, the null document (undefined) of any other text
DocumentFromJson(data) ==
    IF Len(data) >= 2 /\ data[1] = LBrace /\ data[Len(data)] = RBrace
       /\ \A i \in 1..Len(Inner(data)) : Inner(data)[i].tok = "member"
    THEN JObject(ParseMembers(Inner(data), 1, <<>>))
    ELSE IF Len(data) >= 2 /\ data[1] = LBracket /\ data[Len(data)] = RBracket
            /\ \A i \in 1..Len(Inner(data)) : Inner(data)[i].tok = "element"
    THEN JArray([i \in 1..Len(Inner(data)) |-> Inner(data)[i].value])
    ELSE JUndefined

\* QJsonDocument::object(): empty unless the document holds an object
DocumentObject(doc) == toObject(doc)

\* QJsonDocument(object).toJson(): the members in the object's key order
toByteArray(value) ==
    <<LBrace>> \o [i \in 1..Len(toObject(value)) |->
                      Member(toObject(value)[i].key, toObject(value)[i].value)]
    \o <<RBrace>>

toRawJson(c, this) == toByteArray(JObject(toJson(c, this)))

BytesValueLenient(data) ==
    JObject(ParseMembers(SelectSeq(data, LAMBDA t : t.tok = "member"), 1, <<>>))

\* fromJson(const QByteArray& data): the value handed to fromJson(QJsonValue)
BytesValue(data) == JObject(DocumentObject(DocumentFromJson(data)))

(***************************************************************************)
(* The values the operations are called with                               *)
(***************************************************************************)
SeqsUpTo(S, n) == UNION {[1..m -> S] : m \in 0..n}

\* the sequences of at most n elements that alternate between two different
\* elements of S
Alternating(S, n) ==
    {[i \in 1..m |-> IF i % 2 = 1 THEN p[1] ELSE p[2]] :
        m \in 0..n, p \in {q \in S \X S : q[1] # q[2]}}

RECURSIVE MapOf(_, _)
MapOf(f, keys) ==
    IF keys = {} THEN <<>>
    ELSE LET k == CHOOSE x \in keys : TRUE
         IN MapInsert(MapOf(f, keys \ {k}), k, f[k])

RECURSIVE ObjectOf(_, _)
ObjectOf(f, keys) ==
    IF keys = {} THEN <<>>
    ELSE LET k == CHOOSE x \in keys : TRUE
         IN ObjInsert(ObjectOf(f, keys \ {k}), k, f[k])

SubsetsUpTo(S, n) == {K \in SUBSET S : Cardinality(K) <= n}

\* a map with int keys, in key order
RECURSIVE IntMapOf(_, _)
IntMapOf(f, keys) ==
    IF keys = {} THEN <<>>
    ELSE LET k == CHOOSE x \in keys : \A y \in keys : x <= y
         IN <<[key |-> k, value |-> f[k]]>> \o IntMapOf(f, keys \ {k})

\* the persons and the page of main(), shortened
person1 == <<s_A, 18, <<s_A, s_TV>>>>
person2 == <<s_TV, 16, <<>>>>
page1 == <<80, 4, 20, 1>>

\* the arguments of the setters set_##name, by type
RECURSIVE Samples(_)
Samples(type) ==
    CASE type.k = "int" -> {18}
      [] type.k = "QString" -> {s_A, s_TV}
      [] type.k = "QJsonValue" -> {JUndefined, JDouble(18), JString(s_A)}
      [] type.k = "sequence" -> Alternating(Samples(type.e), MaxLen)
      [] type.k = "map" ->
            {MapOf(f, DOMAIN f) :
                f \in UNION {[K -> Samples(type.v)] : K \in SubsetsUpTo({s_A, s_TV}, MaxLen)}}
      [] type.k = "intmap" ->
            {IntMapOf(f, DOMAIN f) :
                f \in UNION {[K -> Samples(type.v)] : K \in SubsetsUpTo({1, 2}, MaxLen)}}
      [] type.k = "class" ->
            (IF type.c = "TestPerson" THEN {person1, person2} ELSE {page1})

\* the objects of class c the setters can build from an object constructed
\* with the given indeterminate value: the first n members
RECURSIVE ObjectsUpTo(_, _, _)
ObjectsUpTo(c, n, junk) ==
    IF n = 0 THEN {<<>>}
    ELSE {Append(o, v) :
            o \in ObjectsUpTo(c, n - 1, junk),
            v \in IF IsJsonProperty(c, n)
                  THEN Samples(metaObject(c)[n].type)
                  ELSE {DefaultValue(metaObject(c)[n].type, junk)}}

Objects(c) == UNION {ObjectsUpTo(c, propertyCount(c), junk) : junk \in Indeterminate}

\* the keys of the input objects: the property names, the first JSON property's
\* name in upper case, and a key that matches no property
FirstJsonProperty(c) == CHOOSE i \in JsonProperties(c) : \A j \in JsonProperties(c) : i <= j

InputKeys(c) ==
    {metaObject(c)[i].name : i \in 1..propertyCount(c)}
    \cup {ToUpper(metaObject(c)[FirstJsonProperty(c)].name), s_zip}

\* the values under those keys: well-formed ones and malformed ones
InputValues(c) ==
    CASE c = "TestPerson" ->
            {JString(s_A), JString(s_18), JDouble(18), JNull,
             JArray(<<JString(s_TV), JDouble(18)>>)}
      [] c = "TestPageInfo" -> {JDouble(18), JString(s_A), JNull}
      [] c = "TestPagedPerson" ->
            {JObject(toJson("TestPageInfo", page1)),
             JObject(ObjInsert(<<>>, s_totalPage, JDouble(4))),
             JArray(<<JObject(toJson("TestPerson", person1)), JNull>>),
             JString(s_A)}
      [] c = "TestExtras" ->
            {JDouble(18), JString(s_A),
             JObject(ObjInsert(<<>>, s_A, JDouble(18)))}
      [] c = "TestTagged" -> {JString(s_A), JString(s_TV), JDouble(18)}

NonObjects == {JNull, JBool(TRUE), JDouble(18), JString(s_A), JArray(<<JString(s_A)>>)}

InputObjects(c) ==
    {ObjectOf(f, DOMAIN f) :
        f \in UNION {[K -> InputValues(c)] : K \in SubsetsUpTo(InputKeys(c), MaxKeys)}}

\* what fromJson(const QJsonValue&) is called with: a value that is no object,
\* an object put together by hand, or the toJson() of an object of the class
FromJsonInputs(c) ==
    NonObjects
    \cup {JObject(o) : o \in InputObjects(c)}
    \cup {JObject(toJson(c, o)) : o \in Objects(c)}

\* what fromJson(const QByteArray&) is called with: a text of an object whose
\* members are written in any order, the same text cut short, the text of an
\* array, an empty text, and the toRawJson() of an object of the class
TextKeys(c) ==
    {metaObject(c)[FirstJsonProperty(c)].name,
     ToUpper(metaObject(c)[FirstJsonProperty(c)].name), s_zip}
TextValues == {JString(s_A), JString(s_TV)}

MemberSeqs(c) ==
    {ms \in SeqsUpTo({Member(k, v) : k \in TextKeys(c), v \in TextValues}, MaxKeys) :
        \A i, j \in 1..Len(ms) : i # j => ms[i].key # ms[j].key}

FromJsonTexts(c) ==
    {<<LBrace>> \o ms \o <<RBrace>> : ms \in MemberSeqs(c)}
    \cup {<<LBrace>> \o ms : ms \in MemberSeqs(c)}
    \cup {<<>>, <<LBracket, RBracket>>, <<LBracket, Element(JString(s_A)), RBracket>>,
          <<Element(JString(s_A))>>}
    \cup {toRawJson(c, o) : o \in Objects(c)}

\* the same sets, computed once per class
FromJsonInputsOf == [c \in Classes |-> FromJsonInputs(c)]
FromJsonTextsOf == [c \in Classes |-> FromJsonTexts(c)]
SetterArguments ==
    [c \in Classes |-> [i \in 1..propertyCount(c) |-> Samples(metaObject(c)[i].type)]]

\* the static types Serializer<T> is used with
StaticTypes ==
    {Type("int"), Type("double"), Type("bool"), Type("QString"), Type("QJsonValue"),
     Type("QDateTime"), Type("TestPerson"), Type("TestPageInfo"), Type("TestPagedPerson"),
     Template("QSet", <<Type("QString")>>),
     Template("QList", <<Type("QString")>>),
     Template("QList", <<Type("QJsonValue")>>),
     Template("QList", <<Type("QDateTime")>>),
     Template("QVector", <<Type("int")>>),
     Template("std::vector", <<Type("TestPerson")>>),
     Template("QMap", <<Type("QString"), Type("int")>>),
     Template("QHash", <<Type("QString"), Type("QString")>>),
     Template("std::map", <<Type("QString"), Template("QList", <<Type("QString")>>)>>),
     Template("QMap", <<Type("int"), Type("QString")>>),
     Template("std::map", <<Type("int"), Type("int")>>)}

\* those of them whose toJson, or whose toJson and fromJson, build and whose
\* values the conversions above model
ToJsonTypes == {T \in StaticTypes : Builds(T) /\ T.name \notin {"double", "bool"}}
FromJsonTypes == {T \in ToJsonTypes : BuildsFromJson(T)}

\* the values Serializer<T>::toJson is called with
Values(T) ==
    IF Descriptor(T).k = "class" THEN Objects(Descriptor(T).c) ELSE Samples(Descriptor(T))

\* the values Serializer<T>::fromJson is called with: the toJson of a value of
\* T, and values of other shapes
OtherShapes ==
    NonObjects
    \cup {JObject(<<>>), JArray(<<>>),
          JArray(<<JString(s_TV), JDouble(18)>>),
          JArray(<<JObject(toJson("TestPerson", person1)), JNull>>),
          JObject(ObjInsert(ObjInsert(<<>>, s_A, JDouble(18)), s_TV, JString(s_A)))}

ValuesOf == [T \in ToJsonTypes |-> Values(T)]
JsonValuesOf ==
    [T \in FromJsonTypes |->
        {SerializerToJson(Descriptor(T), v) : v \in Values(T)} \cup OtherShapes]

(***************************************************************************)
(* The state: one object of a declared class and the last call on it.      *)
(* As in main(), an object is constructed, filled through its setters and  *)
(* then serialized or deserialized; the next call is on a new object.      *)
(***************************************************************************)
VARIABLES
    cls,       \* the class of the object
    object,    \* its members m_##name, in declaration order
    lastOp,    \* the last call: construct, set, toJson, toRawJson, fromJson,
               \* fromJsonBytes on the object; Serializer for a use of Serializer<T>,
               \* Serializer::toJson, Serializer::fromJson for a call of it
    pre,       \* the members before the last call
    preFresh,  \* the object was default-constructed and untouched before the last call
    arg,       \* the QJsonValue the last fromJson decoded (undefined otherwise)
               \* a call of Serializer<T> leaves its QJsonValue in arg or out too
    data,      \* the bytes the last call took or returned
    out,       \* the QJsonObject the last toJson returned (undefined otherwise)
    writes,    \* per property, how often the last call wrote it
    stype,     \* the T of the last use of Serializer<T>
    strategy,  \* the specialization that use selected
    svalue     \* the value of type T the last Serializer<T> call took or returned

vars == <<cls, object, lastOp, pre, preFresh, arg, data, out, writes,
          stype, strategy, svalue>>

\* Serializer was not used
NoType == Type("void")

NoWrites(c) == [i \in 1..propertyCount(c) |-> 0]

Init ==
    /\ cls \in Classes
    /\ \E junk \in Indeterminate : object = DefaultObject(cls, junk)
    /\ lastOp = "construct"
    /\ pre = object
    /\ preFresh = FALSE
    /\ arg = JUndefined
    /\ data = <<>>
    /\ out = JUndefined
    /\ writes = NoWrites(cls)
    /\ stype = NoType
    /\ strategy = "none"
    /\ svalue = <<>>

\* the object is under construction: no call but its setters' was made on it
Populating == lastOp \in {"construct", "set"}

\* T object;
Construct ==
    /\ \E junk \in Indeterminate : object' = DefaultObject(cls, junk)
    /\ lastOp' = "construct"
    /\ pre' = object'
    /\ preFresh' = FALSE
    /\ arg' = JUndefined
    /\ data' = <<>>
    /\ out' = JUndefined
    /\ writes' = NoWrites(cls)
    /\ stype' = NoType
    /\ strategy' = "none"
    /\ svalue' = <<>>
    /\ UNCHANGED cls

\* object.set_##name(value)
Set ==
    /\ Populating
    /\ \E i \in JsonProperties(cls) :
         \E value \in SetterArguments[cls][i] :
            /\ object' = [object EXCEPT ![i] = value]
    /\ lastOp' = "set"
    /\ pre' = object'
    /\ preFresh' = FALSE
    /\ writes' = NoWrites(cls)
    /\ arg' = JUndefined
    /\ data' = <<>>
    /\ out' = JUndefined
    /\ UNCHANGED <<cls, stype, strategy, svalue>>

\* object.toJson()
ToJson ==
    /\ Populating
    /\ out' = JObject(toJson(cls, object))
    /\ lastOp' = "toJson"
    /\ pre' = object
    /\ preFresh' = (lastOp = "construct")
    /\ arg' = JUndefined
    /\ data' = <<>>
    /\ writes' = NoWrites(cls)
    /\ UNCHANGED <<cls, object, stype, strategy, svalue>>

\* object.toRawJson()
ToRawJson ==
    /\ Populating
    /\ data' = toRawJson(cls, object)
    /\ lastOp' = "toRawJson"
    /\ pre' = object
    /\ preFresh' = (lastOp = "construct")
    /\ arg' = JUndefined
    /\ out' = JUndefined
    /\ writes' = NoWrites(cls)
    /\ UNCHANGED <<cls, object, stype, strategy, svalue>>

\* object.fromJson(val)
FromJson ==
    /\ Populating
    /\ \E val \in FromJsonInputsOf[cls] : \E junk \in Indeterminate :
         /\ object' = fromJson(cls, object, val, junk)
         /\ arg' = val
         /\ writes' = [i \in 1..propertyCount(cls) |-> WriteCount(cls, val, i)]
    /\ lastOp' = "fromJson"
    /\ pre' = object
    /\ preFresh' = (lastOp = "construct")
    /\ data' = <<>>
    /\ out' = JUndefined
    /\ UNCHANGED <<cls, stype, strategy, svalue>>

\* object.fromJson(data), data a QByteArray
FromJsonBytes ==
    /\ Populating
    /\ \E text \in FromJsonTextsOf[cls] : \E junk \in Indeterminate :
         /\ object' = fromJson(cls, object, BytesValue(text), junk)
         /\ arg' = BytesValue(text)
         /\ data' = text
         /\ writes' = [i \in 1..propertyCount(cls) |->
                          WriteCount(cls, BytesValue(text), i)]
    /\ lastOp' = "fromJsonBytes"
    /\ pre' = object
    /\ preFresh' = (lastOp = "construct")
    /\ out' = JUndefined
    /\ UNCHANGED <<cls, stype, strategy, svalue>>

\* a use of Serializer<T> in the program: the compiler selects the
\* specialization
Instantiate ==
    /\ lastOp = "construct"
    /\ \E T \in StaticTypes :
         /\ stype' = T
         /\ strategy' = Resolve(T)
    /\ lastOp' = "Serializer"
    /\ svalue' = <<>>
    /\ UNCHANGED <<cls, object, pre, preFresh, arg, data, out, writes>>

\* Serializer<T>::toJson(value)
SerializerToJsonCall ==
    /\ lastOp = "construct"
    /\ \E T \in ToJsonTypes : \E value \in ValuesOf[T] :
         /\ stype' = T
         /\ strategy' = Resolve(T)
         /\ svalue' = value
         /\ out' = SerializerToJson(Descriptor(T), value)
    /\ lastOp' = "Serializer::toJson"
    /\ UNCHANGED <<cls, object, pre, preFresh, arg, data, writes>>

\* Serializer<T>::fromJson(json)
SerializerFromJsonCall ==
    /\ lastOp = "construct"
    /\ \E T \in FromJsonTypes : \E json \in JsonValuesOf[T] : \E junk \in Indeterminate :
         /\ stype' = T
         /\ strategy' = Resolve(T)
         /\ arg' = json
         /\ svalue' = SerializerFromJson(Descriptor(T), json, junk)
    /\ lastOp' = "Serializer::fromJson"
    /\ UNCHANGED <<cls, object, pre, preFresh, data, out, writes>>

Next ==
    \/ Construct
    \/ Set
    \/ ToJson
    \/ ToRawJson
    \/ FromJson
    \/ FromJsonBytes
    \/ Instantiate
    \/ SerializerToJsonCall
    \/ SerializerFromJsonCall

Spec == Init /\ [][Next]_vars

(***************************************************************************)
(* Vocabulary of the properties                                            *)
(***************************************************************************)
Decoding == lastOp \in {"fromJson", "fromJsonBytes"}

NameOf(i) == metaObject(cls)[i].name
TypeOf(i) == metaObject(cls)[i].type

\* the keys of the decoded object that match property i, letter case aside
MatchingKeys(i) == {k \in ObjKeySet(toObject(arg)) : FoldCase(k) = FoldCase(NameOf(i))}

\* the least of a non-empty set of keys in the key order of QJsonObject
LeastKey(keys) == CHOOSE k \in keys : \A k2 \in keys \ {k} : StrLess(k, k2)

\* the names of the JSON properties in declaration order
RECURSIVE DeclaredNamesFrom(_, _)
DeclaredNamesFrom(c, i) ==
    IF i > propertyCount(c) THEN <<>>
    ELSE IF metaObject(c)[i].typeName = "QJsonValue"
         THEN <<metaObject(c)[i].name>> \o DeclaredNamesFrom(c, i + 1)
         ELSE DeclaredNamesFrom(c, i + 1)
DeclaredNames(c) == DeclaredNamesFrom(c, 1)

PositionIn(seq, x) == CHOOSE n \in 1..Len(seq) : seq[n] = x

\* the types the round trip is stated for: primitives, sequences, maps with
\* string keys and declared classes made of them
RECURSIVE Plain(_)
Plain(type) ==
    CASE type.k \in {"int", "QString"} -> TRUE
      [] type.k = "QJsonValue" -> FALSE
      [] type.k = "sequence" -> Plain(type.e)
      [] type.k = "map" -> Plain(type.v)
      [] type.k = "class" ->
            \A i \in 1..propertyCount(type.c) :
                metaObject(type.c)[i].typeName = "QJsonValue"
                    => Plain(metaObject(type.c)[i].type)

\* per class, each object the setters can build with its toJson()
EncodedObjects ==
    [c \in Classes |-> {[json |-> JObject(toJson(c, o)), object |-> o] : o \in Objects(c)}]

(***************************************************************************)
(* C1.  Round trip: for an object O of a class made of primitives,         *)
(* sequences, string-keyed maps and nested declared objects,               *)
(* fromJson(O.toJson()) on a freshly constructed object of the class makes *)
(* every JSON property equal to O's.  The code breaks it for a class with  *)
(* two property names that differ in letter case only.                     *)
(***************************************************************************)
C1_RoundTrip ==
    (lastOp = "fromJson" /\ preFresh /\ Plain(T_Class(cls)))
        => \A e \in EncodedObjects[cls] :
              arg = e.json => \A i \in JsonProperties(cls) : object[i] = e.object[i]

(***************************************************************************)
(* C2.  As claimed: toJson() emits its keys in the declaration order of    *)
(* the properties.                                                         *)
(***************************************************************************)
C2_DeclarationOrder ==
    lastOp = "toJson"
        => \A a, b \in 1..Len(toObject(out)) :
              a < b => PositionIn(DeclaredNames(cls), ObjKeys(toObject(out))[a])
                         < PositionIn(DeclaredNames(cls), ObjKeys(toObject(out))[b])

(***************************************************************************)
(* C2, amended.  toJson() emits its keys in ascending order of the         *)
(* property names, whatever the order of declaration and of the setter     *)
(* calls: TestPerson, declaring name, age, hobbies, is emitted as age,     *)
(* hobbies, name.                                                          *)
(***************************************************************************)
C2_KeyOrder ==
    lastOp = "toJson"
        => /\ \A a, b \in 1..Len(toObject(out)) :
                a < b => StrLess(ObjKeys(toObject(out))[a], ObjKeys(toObject(out))[b])
           /\ cls = "TestPerson" => ObjKeys(toObject(out)) = <<s_age, s_hobbies, s_name>>

C2_Witness ==
    /\ lastOp = "toJson"
    /\ cls = "TestPerson"
    /\ object = person1
    /\ ObjKeys(toObject(out)) = <<s_age, s_hobbies, s_name>>
    /\ DeclaredNames(cls) = <<s_name, s_age, s_hobbies>>

\* a value that does not have the shape the type is decoded from
Malformed(type, json) ==
    CASE type.k = "int" ->
            \/ json.t \in {"Null", "Array", "Object"}
            \/ json.t = "String" /\ ~IsDigits(json.s)
      [] type.k = "QString" -> json.t \in {"Null", "Array", "Object"}
      [] type.k = "QJsonValue" -> FALSE
      [] type.k = "sequence" -> json.t # "Array"
      [] type.k = "map" -> json.t # "Object"
      [] type.k = "class" -> json.t # "Object"

\* what a malformed value is decoded to
Fallback(type, junk) ==
    CASE type.k = "int" -> 0
      [] type.k \in {"QString", "sequence", "map"} -> <<>>
      [] type.k = "QJsonValue" -> JNull
      [] type.k = "class" -> DefaultObject(type.c, junk)

\* the value of the key that fromJson decodes into property i
DecodedValue(i) == ObjValue(toObject(arg), LeastKey(MatchingKeys(i)))

(***************************************************************************)
(* C3.  As claimed: fromJson leaves a property at its value of before the  *)
(* call when no key matches it and also when the matching key's value is   *)
(* malformed for the property's type.                                      *)
(***************************************************************************)
C3_KeepsOnMalformed ==
    Decoding
        => \A i \in JsonProperties(cls) :
              (MatchingKeys(i) = {} \/ Malformed(TypeOf(i), DecodedValue(i)))
                  => object[i] = pre[i]

(***************************************************************************)
(* C3, amended.  fromJson leaves a property at its value of before the     *)
(* call when no key matches it; when the matching key's value is malformed *)
(* for the property's type the property is overwritten with the fallback   *)
(* of the type: 0, the empty string, the empty container, a                *)
(* default-constructed nested object.                                      *)
(***************************************************************************)
C3_FallbackOnMalformed ==
    Decoding
        => \A i \in JsonProperties(cls) :
              /\ MatchingKeys(i) = {} => object[i] = pre[i]
              /\ (MatchingKeys(i) # {} /\ Malformed(TypeOf(i), DecodedValue(i)))
                    => \E junk \in Indeterminate : object[i] = Fallback(TypeOf(i), junk)

C3_Witness ==
    /\ lastOp = "fromJson"
    /\ cls = "TestPerson"
    /\ pre = person1
    /\ MatchingKeys(3) = {s_hobbies}
    /\ MatchingKeys(2) = {s_age}
    /\ MatchingKeys(1) = {}
    /\ DecodedValue(3) = JString(s_A)
    /\ DecodedValue(2) = JString(s_A)
    /\ object = <<s_A, 0, <<>>>>

(***************************************************************************)
(* C4.  As claimed: of several keys that match one property, fromJson      *)
(* decodes the first in the order the input object was written, not in     *)
(* alphabetical order.                                                     *)
(***************************************************************************)
TextMembersMatching(i) ==
    SelectSeq(Inner(data), LAMBDA m : FoldCase(m.key) = FoldCase(NameOf(i)))

C4_FirstAsWritten ==
    (lastOp = "fromJsonBytes" /\ isObject(DocumentFromJson(data)))
        => \A i \in JsonProperties(cls) :
              TextMembersMatching(i) # <<>>
                  => \E junk \in Indeterminate :
                        object[i] = SerializerFromJson(TypeOf(i),
                                        Head(TextMembersMatching(i)).value, junk)

(***************************************************************************)
(* C4, amended.  Of several keys that match one property, fromJson decodes *)
(* the first in the key order of the QJsonObject, which is ascending by    *)
(* code unit whatever order the keys were written or inserted in; it       *)
(* writes the property exactly once and ignores the other matching keys.   *)
(***************************************************************************)
C4_FirstInKeyOrder ==
    (Decoding /\ isObject(arg))
        => \A i \in JsonProperties(cls) :
              MatchingKeys(i) # {}
                  => /\ writes[i] = 1
                     /\ \E junk \in Indeterminate :
                           object[i] = SerializerFromJson(TypeOf(i), DecodedValue(i), junk)

C4_Witness ==
    /\ lastOp = "fromJsonBytes"
    /\ cls = "TestPerson"
    /\ data = <<LBrace, Member(s_name, JString(s_A)),
                Member(ToUpper(s_name), JString(s_TV)), RBrace>>
    /\ pre[1] = <<>>
    /\ object[1] = s_TV
    /\ writes = <<1, 0, 0>>

(***************************************************************************)
(* C5.  toJson() returns an object whose keys are exactly the names of the *)
(* declared JSON properties, whatever values they hold.  The code omits a  *)
(* property of type QJsonValue that holds an undefined value.              *)
(***************************************************************************)
C5_AllDeclaredKeys ==
    lastOp = "toJson"
        => isObject(out) /\ ObjKeySet(toObject(out)) = PropertyNames(cls)

(***************************************************************************)
(* C6.  fromJson(val) with val no object (null, a boolean, a number, a     *)
(* string, an array) leaves every member of the object as it was.          *)
(***************************************************************************)
C6_NonObjectNoOp ==
    (lastOp = "fromJson" /\ arg.t \in {"Null", "Bool", "Double", "String", "Array"})
        => object = pre

C6_Witness ==
    /\ lastOp = "fromJson"
    /\ arg = JArray(<<JString(s_A)>>)
    /\ cls = "TestPerson"
    /\ pre = person1
    /\ object = person1

(***************************************************************************)
(* C7.  After fromJson(val) with val an object, every property whose name  *)
(* matches no key of val, letter case aside, holds the value it held       *)
(* before the call, also when the call updated other properties.           *)
(***************************************************************************)
C7_UnmatchedUnchanged ==
    (Decoding /\ isObject(arg))
        => \A i \in 1..propertyCount(cls) :
              (\A k \in ObjKeySet(toObject(arg)) : FoldCase(k) # FoldCase(NameOf(i)))
                  => object[i] = pre[i]

C7_Witness ==
    /\ lastOp = "fromJson"
    /\ cls = "TestPerson"
    /\ pre = person1
    /\ ObjKeySet(toObject(arg)) = {s_age}
    /\ object[2] # pre[2]
    /\ object[1] = s_A
    /\ object[3] = <<s_A, s_TV>>

(***************************************************************************)
(* C8.  A key that matches no property name, letter case aside, changes    *)
(* nothing: fromJson(val) leaves the object as fromJson of val without its *)
(* unknown keys does, and an object of unknown keys only changes no        *)
(* property.                                                               *)
(***************************************************************************)
IsUnknownKey(k) ==
    \A i \in JsonProperties(cls) : FoldCase(k) # FoldCase(NameOf(i))

KnownEntries(o) == SelectSeq(o, LAMBDA e : ~IsUnknownKey(e.key))

C8_UnknownKeysIgnored ==
    (Decoding /\ isObject(arg))
        => /\ \E junk \in Indeterminate :
                object = fromJson(cls, pre, JObject(KnownEntries(toObject(arg))), junk)
           /\ KnownEntries(toObject(arg)) = <<>> => object = pre

C8_Witness ==
    /\ lastOp = "fromJson"
    /\ cls = "TestPerson"
    /\ pre = person1
    /\ ObjKeySet(toObject(arg)) = {s_zip, s_name}
    /\ ObjValue(toObject(arg), s_name) = JString(s_18)
    /\ object = <<s_18, 18, <<s_A, s_TV>>>>

C8_WitnessOnlyUnknown ==
    /\ lastOp = "fromJson"
    /\ cls = "TestPerson"
    /\ pre = person1
    /\ ObjKeySet(toObject(arg)) = {s_zip}
    /\ object = person1

(***************************************************************************)
(* C9.  Keys match property names letter case aside: when the only key     *)
(* that matches property p differs from p's name in letter case, p holds   *)
(* the decoding of that key's value after the call.                        *)
(***************************************************************************)
C9_CaseInsensitive ==
    (Decoding /\ isObject(arg))
        => \A i \in JsonProperties(cls) :
              (Cardinality(MatchingKeys(i)) = 1 /\ NameOf(i) \notin MatchingKeys(i))
                  => \E junk \in Indeterminate :
                        object[i] = SerializerFromJson(TypeOf(i), DecodedValue(i), junk)

C9_Witness ==
    /\ lastOp = "fromJson"
    /\ cls = "TestPerson"
    /\ pre[1] = s_TV
    /\ MatchingKeys(1) = {ToUpper(s_name)}
    /\ DecodedValue(1) = JString(s_A)
    /\ object[1] = s_A

(***************************************************************************)
(* C10.  fromJson(data) with bytes that do not parse as a document, or     *)
(* that parse to a document whose root is no object, decodes the empty     *)
(* object: no member changes.                                              *)
(***************************************************************************)
C10_UnparsedNoOp ==
    (lastOp = "fromJsonBytes" /\ ~isObject(DocumentFromJson(data)))
        => /\ arg = JObject(<<>>)
           /\ object = pre
           /\ writes = NoWrites(cls)

C10_Witness ==
    /\ lastOp = "fromJsonBytes"
    /\ cls = "TestPerson"
    /\ data = <<LBrace, Member(s_name, JString(s_TV))>>
    /\ DocumentFromJson(data) = JUndefined
    /\ pre = person1
    /\ object = person1

C10_WitnessArrayRoot ==
    /\ lastOp = "fromJsonBytes"
    /\ cls = "TestPerson"
    /\ isArray(DocumentFromJson(data))
    /\ pre = person1
    /\ object = person1

(***************************************************************************)
(* Vocabulary of the properties of Serializer<T>                           *)
(***************************************************************************)
Encoding == lastOp = "Serializer::toJson"
DecodingValue == lastOp = "Serializer::fromJson"

\* the string form of a key of a map of the given type
KeyString(type, key) == IF type.k = "intmap" THEN Number(key) ELSE key

IsMapType(T) == Descriptor(T).k \in {"map", "intmap"}
IsSequenceType(T) == Descriptor(T).k = "sequence"

(***************************************************************************)
(* C11.  As claimed: Serializer<Map<K, V>>::toJson(m) is an object with    *)
(* one entry per entry of m, under the string form of the entry's key and  *)
(* holding the toJson of its value; fromJson of that object is m again;    *)
(* fromJson of a value that is no object is the empty map.  The code       *)
(* breaks it for a map whose keys are no strings: every entry goes under   *)
(* the empty key.                                                          *)
(***************************************************************************)
C11_MapRoundTrip ==
    /\ (Encoding /\ IsMapType(stype)) =>
          /\ isObject(out)
          /\ Len(toObject(out)) = Len(svalue)
          /\ \A i \in 1..Len(svalue) :
                ObjValue(toObject(out), KeyString(Descriptor(stype), svalue[i].key))
                    = SerializerToJson(Descriptor(stype).v, svalue[i].value)
    /\ (DecodingValue /\ IsMapType(stype)) =>
          /\ \A m \in ValuesOf[stype] :
                arg = SerializerToJson(Descriptor(stype), m) => svalue = m
          /\ ~isObject(arg) => svalue = <<>>

(***************************************************************************)
(* C12.  As claimed: Serializer<Sequence<T>>::toJson(s) is an array as     *)
(* long as s whose element i is Serializer<T>::toJson(s[i]); fromJson of   *)
(* an array is as long as the array and its element i is                   *)
(* Serializer<T>::fromJson of the array's element i, whatever the type of  *)
(* that element; fromJson of a value that is no array is empty.  The code  *)
(* refutes it for a sequence of QJsonValue with an undefined element,      *)
(* which the array holds as null.                                          *)
(***************************************************************************)
C12_SequenceElementwise ==
    /\ (Encoding /\ IsSequenceType(stype)) =>
          /\ isArray(out)
          /\ Len(toArray(out)) = Len(svalue)
          /\ \A i \in 1..Len(svalue) :
                toArray(out)[i] = SerializerToJson(Descriptor(stype).e, svalue[i])
    /\ (DecodingValue /\ IsSequenceType(stype)) =>
          /\ isArray(arg) =>
                /\ Len(svalue) = Len(toArray(arg))
                /\ \E junk \in Indeterminate : \A i \in 1..Len(svalue) :
                      svalue[i] = SerializerFromJson(Descriptor(stype).e, toArray(arg)[i], junk)
          /\ ~isArray(arg) => svalue = <<>>

\* what a QJsonArray holds after append(value)
Stored(value) == IF value = JUndefined THEN JNull ELSE value

(***************************************************************************)
(* C12, corrected.  toJson(s) is an array as long as s whose element i is  *)
(* Serializer<T>::toJson(s[i]), or null where that is the undefined value; *)
(* fromJson of an array is as long as the array and its element i is       *)
(* Serializer<T>::fromJson of the array's element i, whatever the type of  *)
(* that element; fromJson of a value that is no array is empty.            *)
(***************************************************************************)
C12_SequenceElementwiseStored ==
    /\ (Encoding /\ IsSequenceType(stype)) =>
          /\ isArray(out)
          /\ Len(toArray(out)) = Len(svalue)
          /\ \A i \in 1..Len(svalue) :
                toArray(out)[i] = Stored(SerializerToJson(Descriptor(stype).e, svalue[i]))
    /\ (DecodingValue /\ IsSequenceType(stype)) =>
          /\ isArray(arg) =>
                /\ Len(svalue) = Len(toArray(arg))
                /\ \E junk \in Indeterminate : \A i \in 1..Len(svalue) :
                      svalue[i] = SerializerFromJson(Descriptor(stype).e, toArray(arg)[i], junk)
          /\ ~isArray(arg) => svalue = <<>>

\* a sequence of two elements is encoded, the first of them undefined
C12_Witness ==
    /\ Encoding
    /\ IsSequenceType(stype)
    /\ Len(svalue) > 1
    /\ SerializerToJson(Descriptor(stype).e, svalue[1]) = JUndefined
    /\ toArray(out)[2] # JNull

\* an array is decoded that has an element of another type than the
\* sequence's elements
C12_WitnessMismatch ==
    /\ DecodingValue
    /\ IsSequenceType(stype)
    /\ isArray(arg)
    /\ Len(svalue) > 1
    /\ \E i \in 1..Len(svalue) : Malformed(Descriptor(stype).e, toArray(arg)[i])

\* property i is of a declared class type, or a sequence of such
IsNested(i) == TypeOf(i).k = "class"
IsNestedSequence(i) == TypeOf(i).k = "sequence" /\ TypeOf(i).e.k = "class"

(***************************************************************************)
(* C13.  toJson() holds, for a property of a declared class type, the      *)
(* object that the member's own toJson() returns, and for a sequence of    *)
(* declared objects the array of their toJson() objects.  fromJson makes   *)
(* such a property what fromJson of the value under its key makes of a     *)
(* default-constructed instance.  fromJson(O.toJson()) on a fresh          *)
(* TestPagedPerson gives a page and persons equal to O's.                  *)
(***************************************************************************)
C13_NestedObjects ==
    /\ lastOp = "toJson" =>
          \A i \in JsonProperties(cls) :
             /\ IsNested(i) =>
                   ObjValue(toObject(out), NameOf(i))
                       = JObject(toJson(TypeOf(i).c, object[i]))
             /\ IsNestedSequence(i) =>
                   LET array == toArray(ObjValue(toObject(out), NameOf(i)))
                   IN /\ isArray(ObjValue(toObject(out), NameOf(i)))
                      /\ Len(array) = Len(object[i])
                      /\ \A n \in 1..Len(array) :
                            array[n] = JObject(toJson(TypeOf(i).e.c, object[i][n]))
    /\ Decoding =>
          \A i \in JsonProperties(cls) :
             (IsNested(i) /\ writes[i] > 0) =>
                \E junk \in Indeterminate :
                   object[i] = fromJson(TypeOf(i).c, DefaultObject(TypeOf(i).c, junk),
                                        DecodedValue(i), junk)
    /\ (lastOp = "fromJson" /\ preFresh /\ cls = "TestPagedPerson") =>
          \A e \in EncodedObjects[cls] : arg = e.json => object = e.object

\* a fresh TestPagedPerson decoded the toJson() of one with a page and two
\* persons, and holds them
C13_Witness ==
    /\ lastOp = "fromJson"
    /\ preFresh
    /\ cls = "TestPagedPerson"
    /\ arg = JObject(toJson(cls, <<page1, <<person1, person2>>>>))
    /\ isObject(ObjValue(toObject(arg), s_page))
    /\ isArray(ObjValue(toObject(arg), s_persons))
    /\ object = <<page1, <<person1, person2>>>>

\* Serializer<stype> was used
Selected == lastOp \in {"Serializer", "Serializer::toJson", "Serializer::fromJson"}

\* the category of a type by what it is, and of a specialization
CategoryOf(T) ==
    CASE T.name \in {"int", "double", "bool", "QString"} -> "primitive"
      [] T.name \in {"QList", "QVector", "std::vector"} -> "sequence"
      [] T.name \in {"QMap", "QHash", "std::map"} -> "map"
      [] T.name \in Classes -> "object"
      [] T.name = "QJsonValue" -> "QJsonValue"
      [] OTHER -> "other"

Category(s) ==
    CASE s = "primitive" -> "primitive"
      [] s \in {"QList/QVector", "std::vector"} -> "sequence"
      [] s \in {"QMap/QHash", "std::map"} -> "map"
      [] s = "JsonSerializable" -> "object"
      [] s = "QJsonValue" -> "QJsonValue"
      [] OTHER -> s

(***************************************************************************)
(* C14.  As claimed: every use of Serializer<T> selects a conversion, the  *)
(* one of T's category for a primitive, a sequence, a map or a declared    *)
(* class, and the generic fallback conversion for any other type; no       *)
(* selection fails.                                                        *)
(***************************************************************************)
C14_FallbackForOthers ==
    Selected =>
        /\ strategy \notin {"incomplete", "ambiguous"}
        /\ CategoryOf(stype) \in {"primitive", "sequence", "map", "object"}
              => Category(strategy) = CategoryOf(stype)
        /\ CategoryOf(stype) = "other" => strategy = "fallback"

(***************************************************************************)
(* C14, corrected.  A primitive, a sequence, a map and a declared class    *)
(* meet the condition of one specialization of Serializer each, the one of *)
(* their category, and QJsonValue has a specialization of its own.  Any    *)
(* other type meets none: Serializer<T> is then the primary template,      *)
(* which is declared and not defined, and no conversion is called for it.  *)
(***************************************************************************)
C14_NoFallback ==
    Selected =>
        /\ Cardinality({s \in Specializations : Matches(s, stype)}) <= 1
        /\ Category(strategy) =
              (IF CategoryOf(stype) = "other" THEN "incomplete" ELSE CategoryOf(stype))
        /\ (Encoding \/ DecodingValue) => strategy \in Specializations

\* Serializer<QDateTime> and Serializer<QSet<QString>> are incomplete types
C14_Witness ==
    /\ lastOp = "Serializer"
    /\ stype \in {Type("QDateTime"), Template("QSet", <<Type("QString")>>)}
    /\ strategy = "incomplete"

\* no key of the value matches property j of class c, letter case aside
\* (a value that is no object has no keys)
KeyAbsent(c, j, json) ==
    \A k \in ObjKeySet(toObject(json)) : FoldCase(k) # FoldCase(metaObject(c)[j].name)

\* the members of nested, an object of class c decoded from json, that json
\* has no key for are those of a default-constructed object
DefaultWhereAbsent(c, nested, json) ==
    \E junk \in Indeterminate :
        \A j \in JsonProperties(c) :
            KeyAbsent(c, j, json) => nested[j] = DefaultValue(metaObject(c)[j].type, junk)

(***************************************************************************)
(* C15.  fromJson replaces a property of a declared class type as a whole: *)
(* a member of the nested object for which the value under the property's  *)
(* key has no key (or which is no object) is afterwards what it is in a    *)
(* default-constructed instance, whatever the property held before the     *)
(* call.  The same holds of the object Serializer<T>::fromJson returns.    *)
(* An int member of a default-constructed instance is indeterminate.       *)
(***************************************************************************)
C15_NestedFromDefault ==
    /\ Decoding =>
          \A i \in JsonProperties(cls) :
             (IsNested(i) /\ writes[i] > 0) =>
                DefaultWhereAbsent(TypeOf(i).c, object[i], DecodedValue(i))
    /\ (DecodingValue /\ Descriptor(stype).k = "class") =>
          DefaultWhereAbsent(Descriptor(stype).c, svalue, arg)

\* the page of a TestPagedPerson was set, and the object then decoded under
\* the key page an object that has a key for one member of the page only: the
\* other members no longer hold what they held
C15_Witness ==
    /\ lastOp = "fromJson"
    /\ cls = "TestPagedPerson"
    /\ pre[1] = page1
    /\ writes[1] > 0
    /\ DecodedValue(1) = JObject(ObjInsert(<<>>, s_totalPage, JDouble(4)))
    /\ object[1][2] = 4
    /\ object[1][1] # pre[1][1]
    /\ object[1][1] \in Indeterminate

\* the same with a value under the key page that is no object
C15_WitnessNoObject ==
    /\ lastOp = "fromJson"
    /\ cls = "TestPagedPerson"
    /\ pre[1] = page1
    /\ writes[1] > 0
    /\ ~isObject(DecodedValue(1))
    /\ \A j \in 1..Len(object[1]) : object[1][j] \in Indeterminate

(***************************************************************************)
(* C16.  As claimed: when the object fromJson decodes has a key equal to   *)
(* the name of a property, the property is afterwards the decoded value    *)
(* under that key, also when another key matches the name letter case      *)
(* aside; and fromJson(O.toJson()) on a fresh object of a class with two   *)
(* names that differ in letter case only gives each property O's value.    *)
(* The code breaks both: the key that comes first in the key order of the  *)
(* object is the one decoded.                                              *)
(***************************************************************************)
C16_ExactKeyWins ==
    /\ (Decoding /\ isObject(arg)) =>
          \A i \in JsonProperties(cls) :
             NameOf(i) \in ObjKeySet(toObject(arg)) =>
                \E junk \in Indeterminate :
                   object[i] = SerializerFromJson(TypeOf(i),
                                                  ObjValue(toObject(arg), NameOf(i)), junk)
    /\ (lastOp = "fromJson" /\ preFresh /\ cls = "TestTagged") =>
          \A e \in EncodedObjects[cls] : arg = e.json => object = e.object

====
